---- MODULE Spec2Model ----
(***************************************************************************)
(* Model of the board-representation layer of rookie:                      *)
(*   src/src/loc/mod.rs       Loc       (a validated square index, u8)     *)
(*   src/src/bitboard/mod.rs  Bitboard  (a u64 bit set) and BitboardIter   *)
(*   src/src/board/mod.rs     Board and BoardBuilder (eight Bitboards)     *)
(*                                                                         *)
(* A u64 is represented by the set of positions of its set bits (a subset  *)
(* of 0..63): x | y is union, x & y is intersection, x ^ y is symmetric    *)
(* difference, 1 << n is {n}, !x is the complement in 0..63, x == 0 is     *)
(* x = {} and trailing_zeros of a non-zero x is the least element.  A u8   *)
(* is an integer in 0..255 and its arithmetic is taken modulo 256.         *)
(* A Loc is represented by the u8 it wraps.                                *)
(***************************************************************************)
EXTENDS Integers, Sequences, FiniteSets, TLC

VARIABLES
    builder,   \* the BoardBuilder: [live |-> it has not been moved, board |-> its Board]
    boards,    \* the Boards returned by build(), in order
    placed,    \* history: the set of <<kind, white, loc>> passed to add_piece
    adds,      \* history: the number of add_piece calls
    query,     \* the last Board query made and what it returned
    bb,        \* a Bitboard owned by the caller of iter()
    its,       \* the BitboardIter values: [started, v] per traversal
    snap,      \* history: the value bb had when iter() created the traversal
    out,       \* history: what next() has returned: [yielded, ended] per traversal
    muts,      \* history: the number of in-place operations applied to bb
    locq       \* the last Loc constructor call and what it returned

vars == <<builder, boards, placed, adds, query, bb, its, snap, out, muts, locq>>

boardVars == <<builder, boards, placed, adds, query>>
iterVars  == <<bb, its, snap, out, muts>>

(***************************************************************************)
(* Bounds of the model                                                     *)
(***************************************************************************)
MaxAdds == 2    \* add_piece calls made on the builder
NumLocs == 2    \* squares the builder's caller places pieces on
NumBits == 3    \* bit positions the caller of Bitboard sets and clears
MaxMuts == 2    \* in-place operations applied to bb in one behaviour

\* squares used as inputs, most interesting first: A1, H8, E5, F2, ...
SampleLocs == <<0, 63, 36, 13, 3, 5, 8, 62>>
\* bit positions used as inputs: the doc test's 3 and 5, the top bit, ...
SampleBits == <<3, 63, 5, 0, 13, 22, 62, 1>>

Min2(a, b) == IF a < b THEN a ELSE b
PlaceLocs == {SampleLocs[i] : i \in 1..Min2(NumLocs, Len(SampleLocs))}
\* the squares queried: the ones pieces are placed on and one that stays empty
QueryLocs == PlaceLocs \cup {SampleLocs[Min2(NumLocs, Len(SampleLocs) - 1) + 1]}
BitSet    == {SampleBits[i] : i \in 1..Min2(NumBits, Len(SampleBits))}
Iters     == {1, 2}

(***************************************************************************)
(* Option<T>                                                               *)
(***************************************************************************)
None    == [tag |-> "None"]
Some(v) == [tag |-> "Some", val |-> v]

(***************************************************************************)
(* loc/mod.rs                                                              *)
(***************************************************************************)
U8_MAX    == 255
U8        == 0..U8_MAX
BOARD_DIM == 8
NUM_SQUARES == 64

RECURSIVE BitOr(_, _, _)
\* a | b on w-bit unsigned integers
BitOr(a, b, w) ==
    IF w = 0 THEN 0
    ELSE (IF a % 2 = 1 \/ b % 2 = 1 THEN 1 ELSE 0)
         + 2 * BitOr(a \div 2, b \div 2, w - 1)

\* Loc::new(rank, file)
Loc_new(rank, file) ==
    IF BitOr(rank, file, 8) >= 8
    THEN None
    ELSE Some((((rank * BOARD_DIM) % (U8_MAX + 1)) + file) % (U8_MAX + 1))

\* Loc::from_index with the bound compared by > instead of >=
Loc_from_index_gt(idx) ==
    IF idx > NUM_SQUARES THEN None ELSE Some(idx)

\* Loc::from_index(index)
Loc_from_index(idx) ==
    IF idx >= NUM_SQUARES THEN None ELSE Some(idx)

\* Loc::index(&self)
index(loc) == loc

\* Loc::rank_file with the quotient and the remainder exchanged
rank_file_swapped(loc) == <<loc % BOARD_DIM, loc \div BOARD_DIM>>

\* Loc::rank_file(&self)
rank_file(loc) == <<loc \div BOARD_DIM, loc % BOARD_DIM>>

(***************************************************************************)
(* bitboard/mod.rs                                                         *)
(***************************************************************************)
Bits == 0..(NUM_SQUARES - 1)

\* the position of the highest set bit, where the lowest is wanted
highest_bit(x) == CHOOSE n \in x : \A m \in x : n >= m

\* u64::trailing_zeros of a non-zero value: the position of its lowest set bit
trailing_zeros(x) == CHOOSE n \in x : \A m \in x : n <= m

\* Bitboard::from_single(loc): Self(1 << loc.index())
from_single(loc) == {index(loc)}

\* Bitboard::from_u64(raw)
from_u64(raw) == raw

\* Bitboard::at(&self, loc): (self.0 & (1 << loc.index())) != 0
Bitboard_at(self, loc) == (self \cap {index(loc)}) # {}

\* BitAnd / BitAndAssign
bitand(self, rhs) == self \cap rhs
\* BitOr / BitOrAssign
bitor(self, rhs) == self \cup rhs
\* BitXor / BitXorAssign
bitxor(self, rhs) == (self \ rhs) \cup (rhs \ self)

\* Bitboard::iter handing out a traversal that is already one step ahead
iter_advanced(self) == self \ {n \in self : \A m \in self : n <= m}

\* Bitboard::iter(&self): BitboardIter(self.0)
iter(self) == self

\* BitboardIter::next, the value left in the iterator
next_state(v) ==
    IF v = {} THEN v
    ELSE LET ret == trailing_zeros(v) IN v \cap (Bits \ {ret})

\* BitboardIter::next, the value returned
next_item(v) ==
    IF v = {} THEN None
    ELSE LET ret == trailing_zeros(v) IN Loc_from_index(ret % (U8_MAX + 1))

(***************************************************************************)
(* board/mod.rs                                                            *)
(***************************************************************************)
PieceKind == {"Pawn", "Knight", "Bishop", "Rook", "Queen", "King"}

\* Piece { kind, white }
Piece(kind, white) == [kind |-> kind, white |-> white]

\* Board::default(): all eight Bitboards are zero
Board_default ==
    [black |-> {}, white |-> {}, pawns |-> {}, knights |-> {},
     bishops |-> {}, rooks |-> {}, queens |-> {}, kings |-> {}]

\* Board::builder(): BoardBuilder::default()
Board_builder == [live |-> TRUE, board |-> Board_default]

\* BoardBuilder::add_piece without the else branch that marks a black piece
add_piece_no_black(board, piece, loc) ==
    LET new == from_single(loc)
        b1  == CASE piece.kind = "Pawn"   -> [board EXCEPT !.pawns   = bitor(@, new)]
                 [] piece.kind = "Knight" -> [board EXCEPT !.knights = bitor(@, new)]
                 [] piece.kind = "Bishop" -> [board EXCEPT !.bishops = bitor(@, new)]
                 [] piece.kind = "Rook"   -> [board EXCEPT !.rooks   = bitor(@, new)]
                 [] piece.kind = "Queen"  -> [board EXCEPT !.queens  = bitor(@, new)]
                 [] piece.kind = "King"   -> [board EXCEPT !.kings   = bitor(@, new)]
    IN  IF piece.white
        THEN [b1 EXCEPT !.white = bitor(@, new)]
        ELSE b1

\* BoardBuilder::add_piece: the builder's Board after the call
add_piece(board, piece, loc) ==
    LET new == from_single(loc)
        b1  == CASE piece.kind = "Pawn"   -> [board EXCEPT !.pawns   = bitor(@, new)]
                 [] piece.kind = "Knight" -> [board EXCEPT !.knights = bitor(@, new)]
                 [] piece.kind = "Bishop" -> [board EXCEPT !.bishops = bitor(@, new)]
                 [] piece.kind = "Rook"   -> [board EXCEPT !.rooks   = bitor(@, new)]
                 [] piece.kind = "Queen"  -> [board EXCEPT !.queens  = bitor(@, new)]
                 [] piece.kind = "King"   -> [board EXCEPT !.kings   = bitor(@, new)]
    IN  IF piece.white
        THEN [b1 EXCEPT !.white = bitor(@, new)]
        ELSE [b1 EXCEPT !.black = bitor(@, new)]

\* BoardBuilder::build: self.board.clone()
build(board) == board

\* the outcomes of Board::at besides Option<Piece>: the call panics with msg
Panic(msg) == [tag |-> "Panic", msg |-> msg]

\* the (bitboard, kind) array Board::at scans, in its order
kind_table(self) ==
    << <<self.pawns, "Pawn">>, <<self.knights, "Knight">>,
       <<self.bishops, "Bishop">>, <<self.rooks, "Rook">>,
       <<self.queens, "Queen">>, <<self.kings, "King">> >>

\* Iterator::find_map over the table: the kind of the first bitboard set at loc
find_map(table, loc) ==
    LET hits == {i \in 1..Len(table) : Bitboard_at(table[i][1], loc)}
    IN  IF hits = {} THEN None
        ELSE Some(table[CHOOSE i \in hits : \A j \in hits : i <= j][2])

\* Board::at taking the colour of the piece from the black mask
Board_at_black(self, loc) ==
    LET w == Bitboard_at(self.white, loc)
        b == Bitboard_at(self.black, loc)
    IN  IF ~w /\ ~b THEN None
        ELSE IF w /\ b THEN Panic("Board corruption: two colors")
        ELSE LET kind == find_map(kind_table(self), loc)
             IN  IF kind = None
                 THEN Panic("Board corruption: color with no piece")
                 ELSE Some(Piece(kind.val, b))

\* Board::at(&self, loc)
Board_at(self, loc) ==
    LET w == Bitboard_at(self.white, loc)
        b == Bitboard_at(self.black, loc)
    IN  IF ~w /\ ~b THEN None
        ELSE IF w /\ b THEN Panic("Board corruption: two colors")
        ELSE LET kind == find_map(kind_table(self), loc)
             IN  IF kind = None
                 THEN Panic("Board corruption: color with no piece")
                 ELSE Some(Piece(kind.val, w))

\* Board::pawns(&self, white) and its five siblings
pawns(self, white)   == bitand(self.pawns,   IF white THEN self.white ELSE self.black)
knights(self, white) == bitand(self.knights, IF white THEN self.white ELSE self.black)
bishops(self, white) == bitand(self.bishops, IF white THEN self.white ELSE self.black)
\* Board::rooks joining the two masks with | instead of &
rooks_union(self, white) == bitor(self.rooks, IF white THEN self.white ELSE self.black)
rooks(self, white)   == bitand(self.rooks,   IF white THEN self.white ELSE self.black)
queens(self, white)  == bitand(self.queens,  IF white THEN self.white ELSE self.black)
kings(self, white)   == bitand(self.kings,   IF white THEN self.white ELSE self.black)

(***************************************************************************)
(* Specification of Board and BoardBuilder                                 *)
(***************************************************************************)
NoQuery == [op |-> "none"]

BoardIdle ==
    /\ builder = Board_builder
    /\ boards = <<>>
    /\ placed = {}
    /\ adds = 0
    /\ query = NoQuery

IterIdle ==
    /\ bb = {}
    /\ its = [i \in Iters |-> [started |-> FALSE, v |-> {}]]
    /\ snap = [i \in Iters |-> {}]
    /\ out = [i \in Iters |-> [yielded |-> <<>>, ended |-> FALSE]]
    /\ muts = 0

LocIdle == locq = [op |-> "none"]

InitBoard == BoardIdle /\ IterIdle /\ LocIdle

\* builder = builder.add_piece(&Piece { kind, white }, &loc)
AddPiece(kind, white, loc) ==
    /\ builder.live
    /\ adds < MaxAdds
    /\ builder' = [builder EXCEPT !.board = add_piece(@, Piece(kind, white), loc)]
    /\ placed' = placed \cup {<<kind, white, loc>>}
    /\ adds' = adds + 1
    /\ UNCHANGED <<boards, query, iterVars, locq>>

\* let board = builder.build(): build takes self by value, the builder is moved
Build ==
    /\ builder.live
    /\ boards' = Append(boards, build(builder.board))
    /\ builder' = [builder EXCEPT !.live = FALSE]
    /\ UNCHANGED <<placed, adds, query, iterVars, locq>>

\* boards[i].at(&loc)
At(i, loc) ==
    /\ query' = [op |-> "at", board |-> i, loc |-> loc, res |-> Board_at(boards[i], loc)]
    /\ UNCHANGED <<builder, boards, placed, adds, iterVars, locq>>

PiecesQuery(name, i, white, res) ==
    /\ query' = [op |-> name, board |-> i, white |-> white, res |-> res]
    /\ UNCHANGED <<builder, boards, placed, adds, iterVars, locq>>

\* boards[i].pawns(white) and its five siblings
Pawns(i, white)   == PiecesQuery("pawns", i, white, pawns(boards[i], white))
Knights(i, white) == PiecesQuery("knights", i, white, knights(boards[i], white))
Bishops(i, white) == PiecesQuery("bishops", i, white, bishops(boards[i], white))
Rooks(i, white)   == PiecesQuery("rooks", i, white, rooks(boards[i], white))
Queens(i, white)  == PiecesQuery("queens", i, white, queens(boards[i], white))
Kings(i, white)   == PiecesQuery("kings", i, white, kings(boards[i], white))

NextBoard ==
    \/ \E kind \in PieceKind, white \in BOOLEAN, idx \in PlaceLocs :
          AddPiece(kind, white, Loc_from_index(idx).val)
    \/ Build
    \/ \E i \in 1..Len(boards), idx \in QueryLocs : At(i, Loc_from_index(idx).val)
    \/ \E i \in 1..Len(boards), white \in BOOLEAN : Pawns(i, white)
    \/ \E i \in 1..Len(boards), white \in BOOLEAN : Knights(i, white)
    \/ \E i \in 1..Len(boards), white \in BOOLEAN : Bishops(i, white)
    \/ \E i \in 1..Len(boards), white \in BOOLEAN : Rooks(i, white)
    \/ \E i \in 1..Len(boards), white \in BOOLEAN : Queens(i, white)
    \/ \E i \in 1..Len(boards), white \in BOOLEAN : Kings(i, white)

SpecBoard == InitBoard /\ [][NextBoard]_vars

(***************************************************************************)
(* Specification of Bitboard and BitboardIter                              *)
(***************************************************************************)
InitIter ==
    /\ BoardIdle /\ LocIdle
    /\ bb \in {from_u64(raw) : raw \in SUBSET BitSet}
    /\ its = [i \in Iters |-> [started |-> FALSE, v |-> {}]]
    /\ snap = [i \in Iters |-> {}]
    /\ out = [i \in Iters |-> [yielded |-> <<>>, ended |-> FALSE]]
    /\ muts = 0

\* let its[i] = bb.iter()
Iter(i) ==
    /\ ~its[i].started
    /\ its' = [its EXCEPT ![i] = [started |-> TRUE, v |-> iter(bb)]]
    /\ snap' = [snap EXCEPT ![i] = bb]
    /\ UNCHANGED <<bb, out, muts, boardVars, locq>>

\* its[i].next()
IterNext(i) ==
    /\ its[i].started
    /\ LET item == next_item(its[i].v)
       IN  /\ its' = [its EXCEPT ![i].v = next_state(@)]
           /\ out' = [out EXCEPT ![i] =
                         IF item = None
                         THEN [@ EXCEPT !.ended = TRUE]
                         ELSE [@ EXCEPT !.yielded = Append(@, index(item.val))]]
    /\ UNCHANGED <<bb, snap, muts, boardVars, locq>>

\* bb &= rhs
AndAssign(rhs) ==
    /\ muts < MaxMuts
    /\ bb' = bitand(bb, rhs)
    /\ muts' = muts + 1
    /\ UNCHANGED <<its, snap, out, boardVars, locq>>

\* bb |= rhs
OrAssign(rhs) ==
    /\ muts < MaxMuts
    /\ bb' = bitor(bb, rhs)
    /\ muts' = muts + 1
    /\ UNCHANGED <<its, snap, out, boardVars, locq>>

\* bb ^= rhs
XorAssign(rhs) ==
    /\ muts < MaxMuts
    /\ bb' = bitxor(bb, rhs)
    /\ muts' = muts + 1
    /\ UNCHANGED <<its, snap, out, boardVars, locq>>

NextIter ==
    \/ \E i \in Iters : Iter(i)
    \/ \E i \in Iters : IterNext(i)
    \/ \E raw \in SUBSET BitSet : AndAssign(from_u64(raw))
    \/ \E raw \in SUBSET BitSet : OrAssign(from_u64(raw))
    \/ \E raw \in SUBSET BitSet : XorAssign(from_u64(raw))

SpecIter == InitIter /\ [][NextIter]_vars

(***************************************************************************)
(* Specification of Loc                                                    *)
(***************************************************************************)
\* the caller holds two u8 values
InitLoc ==
    /\ BoardIdle /\ IterIdle
    /\ \E a \in U8, b \in U8 : locq = [op |-> "input", a |-> a, b |-> b]

\* Loc::new(a, b)
CallNew ==
    /\ locq.op = "input"
    /\ locq' = [op |-> "new", a |-> locq.a, b |-> locq.b,
                res |-> Loc_new(locq.a, locq.b)]
    /\ UNCHANGED <<boardVars, iterVars>>

\* Loc::from_index(a)
CallFromIndex ==
    /\ locq.op = "input"
    /\ locq' = [op |-> "from_index", a |-> locq.a, b |-> locq.b,
                res |-> Loc_from_index(locq.a)]
    /\ UNCHANGED <<boardVars, iterVars>>

\* loc.rank_file() and loc.index() on the Loc that was constructed
CallRankFile ==
    /\ locq.op \in {"new", "from_index"}
    /\ locq.res # None
    /\ locq' = [op |-> "rank_file", from |-> locq.op, a |-> locq.a, b |-> locq.b,
                loc |-> locq.res.val, index |-> index(locq.res.val),
                rf |-> rank_file(locq.res.val)]
    /\ UNCHANGED <<boardVars, iterVars>>

NextLoc == CallNew \/ CallFromIndex \/ CallRankFile

SpecLoc == InitLoc /\ [][NextLoc]_vars

(***************************************************************************)
(* Properties of Board and BoardBuilder, checked under SpecBoard           *)
(***************************************************************************)
\* every Loc there is
AllLocs == {Loc_from_index(i).val : i \in {j \in U8 : Loc_from_index(j) # None}}

\* every add_piece call so far used a different square
DistinctSquares ==
    /\ adds = Cardinality(placed)
    /\ \A p \in placed, q \in placed : p[3] = q[3] => p = q

\* the pieces placed on loc
PlacedOn(loc) == {Piece(p[1], p[2]) : p \in {q \in placed : q[3] = loc}}

\* the squares on which a piece of this kind and colour was placed
PlacedAt(kind, white) == {p[3] : p \in {q \in placed : q[1] = kind /\ q[2] = white}}

\* the pieces query for a kind
PiecesOf(b, kind, white) ==
    CASE kind = "Pawn"   -> pawns(b, white)
      [] kind = "Knight" -> knights(b, white)
      [] kind = "Bishop" -> bishops(b, white)
      [] kind = "Rook"   -> rooks(b, white)
      [] kind = "Queen"  -> queens(b, white)
      [] kind = "King"   -> kings(b, white)

\* the kind mask of a Board
KindMask(b, kind) ==
    CASE kind = "Pawn"   -> b.pawns
      [] kind = "Knight" -> b.knights
      [] kind = "Bishop" -> b.bishops
      [] kind = "Rook"   -> b.rooks
      [] kind = "Queen"  -> b.queens
      [] kind = "King"   -> b.kings

ColourBits(b, loc) ==
    {c \in {"white", "black"} : loc \in (IF c = "white" THEN b.white ELSE b.black)}
KindBits(b, loc) == {k \in PieceKind : loc \in KindMask(b, k)}

\* C1: on a Board built by add_piece calls that all used different squares,
\* at(loc) returns the piece placed on loc for every placed square and the
\* empty result for every other square.
C1_AtReturnsPlaced ==
    DistinctSquares =>
        \A i \in 1..Len(boards) : \A loc \in AllLocs :
            Board_at(boards[i], loc) =
                IF PlacedOn(loc) = {} THEN None
                ELSE Some(CHOOSE p \in PlacedOn(loc) : TRUE)

C1_Witness ==
    /\ DistinctSquares
    /\ adds >= 2
    /\ query.op = "at"
    /\ query.res.tag = "Some"
    /\ \E loc \in AllLocs : Board_at(boards[query.board], loc) = None

\* C2: at(loc) never panics: corruption comes back as an error value.
C2_AtNeverPanics ==
    query.op = "at" => query.res.tag # "Panic"

\* C3: at(loc) returns a piece exactly when one colour bit and one kind bit
\* are set at loc, the empty result exactly when no bit is set at loc, and
\* reports every other configuration as board corruption.
C3_AtNeverMisreads ==
    query.op = "at" =>
        LET colours == Cardinality(ColourBits(boards[query.board], query.loc))
            kinds   == Cardinality(KindBits(boards[query.board], query.loc))
        IN  /\ query.res.tag = "Some" <=> (colours = 1 /\ kinds = 1)
            /\ query.res.tag = "None" <=> (colours = 0 /\ kinds = 0)

\* C4: build() leaves the builder usable: once a Board was built the builder
\* still accepts add_piece and build.
C4_BuilderReusable ==
    Len(boards) > 0 => builder.live

\* C5: on a Board built by add_piece calls that all used different squares,
\* the pieces query of a kind and colour is the kind mask intersected with
\* the colour mask, which is the set of squares where such a piece was placed.
C5_PiecesArePlaced ==
    DistinctSquares =>
        \A i \in 1..Len(boards) : \A kind \in PieceKind, white \in BOOLEAN :
            /\ PiecesOf(boards[i], kind, white) =
                  KindMask(boards[i], kind)
                      \cap (IF white THEN boards[i].white ELSE boards[i].black)
            /\ PiecesOf(boards[i], kind, white) = PlacedAt(kind, white)

C5_Witness ==
    /\ DistinctSquares
    /\ adds >= 2
    /\ query.op = "rooks"
    /\ query.res # {}
    /\ \E k \in PieceKind : PiecesOf(boards[query.board], k, query.white) = {}

\* C10: through the builder, a square has a colour bit exactly when it has a
\* kind bit, so at(loc) never reports a colour with no piece kind and an
\* empty at(loc) has no kind bit; add_piece sets one kind bit and one colour
\* bit at loc and clears nothing.
ColourIffKind(b) ==
    \A loc \in AllLocs :
        /\ (ColourBits(b, loc) # {}) <=> (KindBits(b, loc) # {})
        /\ Board_at(b, loc) # Panic("Board corruption: color with no piece")
        /\ Board_at(b, loc) = None => KindBits(b, loc) = {}

MaskNames == {"black", "white", "pawns", "knights", "bishops", "rooks", "queens", "kings"}
MaskOf(b, m) ==
    CASE m = "black" -> b.black [] m = "white" -> b.white
      [] m = "pawns" -> b.pawns [] m = "knights" -> b.knights
      [] m = "bishops" -> b.bishops [] m = "rooks" -> b.rooks
      [] m = "queens" -> b.queens [] m = "kings" -> b.kings

KindMaskNames == MaskNames \ {"black", "white"}

\* a step of add_piece sets the bit of one square in one kind mask and in one
\* colour mask and leaves every other bit of every mask as it was
AddPieceStep ==
    adds' # adds =>
        \E loc \in AllLocs, k \in KindMaskNames, c \in {"black", "white"} :
            \A m \in MaskNames :
                MaskOf(builder'.board, m) =
                    IF m \in {k, c}
                    THEN MaskOf(builder.board, m) \cup {loc}
                    ELSE MaskOf(builder.board, m)

C10_BuilderKeepsColourIffKind ==
    /\ [](ColourIffKind(builder.board) /\ \A i \in 1..Len(boards) : ColourIffKind(boards[i]))
    /\ [][AddPieceStep]_vars

C10_Witness ==
    /\ adds >= 2
    /\ ~DistinctSquares
    /\ Len(boards) > 0
    /\ query.op = "at"
    /\ query.res.tag = "Some"
    /\ Cardinality(KindBits(boards[query.board], query.loc)) = 2

(***************************************************************************)
(* Properties of Bitboard and BitboardIter, checked under SpecIter         *)
(***************************************************************************)
RECURSIVE Ascending(_)
\* the elements of a set of bit positions, lowest first
Ascending(S) ==
    IF S = {} THEN <<>>
    ELSE LET lo == CHOOSE n \in S : \A m \in S : n <= m
         IN  <<lo>> \o Ascending(S \ {lo})

Range(q) == {q[k] : k \in 1..Len(q)}

\* C6: a traversal yields one Loc per set bit of the bitboard it was started
\* on, lowest index first, each once, and then reports the end; a zero
\* bitboard yields nothing.
C6_IterYieldsSetBitsAscending ==
    \A i \in Iters : its[i].started =>
        LET y == out[i].yielded
        IN  /\ \A k \in 1..Len(y) : y[k] \in snap[i]
            /\ \A k \in 1..Len(y), l \in 1..Len(y) : k < l => y[k] < y[l]
            /\ \A n \in snap[i] \ Range(y) : \A k \in 1..Len(y) : y[k] < n
            /\ Len(y) <= Cardinality(snap[i])
            /\ Range(y) \cup its[i].v = snap[i]
            /\ Range(y) \cap its[i].v = {}
            /\ out[i].ended =>
                  /\ Range(y) = snap[i]
                  /\ Len(y) = Cardinality(snap[i])
            /\ (snap[i] = {} => y = <<>>)

C6_Witness ==
    \E i \in Iters :
        /\ its[i].started
        /\ out[i].ended
        /\ Len(out[i].yielded) >= 2
        /\ 63 \in Range(out[i].yielded)

\* C7: a traversal runs over the value the bitboard had when iter() was
\* called: what it has yielded followed by what it still holds is the
\* ascending sequence of that value whatever was done to the bitboard since;
\* an in-place operation on the bitboard changes no traversal, advancing a
\* traversal changes neither the bitboard nor the other traversal.
TraversalOfSnapshot ==
    \A i \in Iters : its[i].started =>
        out[i].yielded \o Ascending(its[i].v) = Ascending(snap[i])

TraversalFrame ==
    /\ bb' # bb => (its' = its /\ out' = out)
    /\ \A i \in Iters :
          (its[i].started /\ (its'[i] # its[i] \/ out'[i] # out[i])) =>
              /\ bb' = bb
              /\ \A j \in Iters \ {i} : its'[j] = its[j] /\ out'[j] = out[j]

C7_IterIsSnapshot ==
    /\ []TraversalOfSnapshot
    /\ [][TraversalFrame]_vars

C7_Witness ==
    \E i \in Iters, j \in Iters :
        /\ its[i].started /\ its[j].started
        /\ muts > 0
        /\ bb # snap[i]
        /\ snap[i] = snap[j]
        /\ Len(out[i].yielded) >= 2
        /\ Len(out[j].yielded) < Len(out[i].yielded)
        /\ ~out[j].ended

(***************************************************************************)
(* Properties of Loc, checked under SpecLoc                                *)
(***************************************************************************)
\* C8: Loc::new(rank, file) returns a Loc exactly when rank <= 7 and
\* file <= 7, Loc::from_index(index) exactly when index < 64; every Loc holds
\* an index in 0..63 and rank * 8 + file never wraps.
C8_LocFailsExactlyOutOfRange ==
    /\ locq.op = "new" =>
          /\ (locq.res # None) <=> (locq.a <= 7 /\ locq.b <= 7)
          /\ locq.res # None =>
                /\ locq.a * 8 + locq.b <= U8_MAX
                /\ index(locq.res.val) = locq.a * 8 + locq.b
                /\ index(locq.res.val) \in 0..63
    /\ locq.op = "from_index" =>
          /\ (locq.res # None) <=> (locq.a < 64)
          /\ locq.res # None => index(locq.res.val) \in 0..63
    /\ locq.op = "rank_file" => locq.index \in 0..63

C8_Witness ==
    /\ locq.op = "from_index"
    /\ locq.a = 64
    /\ locq.res = None

\* C9: for rank and file in 0..7, Loc::new(rank, file) and
\* Loc::from_index(rank * 8 + file) are the same square and rank_file() gives
\* back (rank, file); for index in 0..63, rank_file() of from_index(index) is
\* (index div 8, index mod 8) and Loc::new of that pair has that index.
C9_LocRoundTrip ==
    /\ (locq.op = "new" /\ locq.a <= 7 /\ locq.b <= 7) =>
          /\ locq.res # None
          /\ Loc_from_index(locq.a * 8 + locq.b) # None
          /\ index(Loc_from_index(locq.a * 8 + locq.b).val) = index(locq.res.val)
          /\ rank_file(locq.res.val) = <<locq.a, locq.b>>
    /\ (locq.op = "from_index" /\ locq.a <= 63) =>
          /\ locq.res # None
          /\ rank_file(locq.res.val) = <<locq.a \div 8, locq.a % 8>>
          /\ Loc_new(rank_file(locq.res.val)[1], rank_file(locq.res.val)[2]) # None
          /\ index(Loc_new(rank_file(locq.res.val)[1], rank_file(locq.res.val)[2]).val) = locq.a
    /\ (locq.op = "rank_file" /\ locq.from = "new") => locq.rf = <<locq.a, locq.b>>
    /\ (locq.op = "rank_file" /\ locq.from = "from_index") =>
          locq.rf = <<locq.a \div 8, locq.a % 8>>

C9_Witness ==
    /\ locq.op = "rank_file"
    /\ locq.from = "new"
    /\ locq.index = 63
    /\ locq.rf = <<7, 7>>

====
